---- MODULE Spec2Model ----
(***************************************************************************)
(* State-machine model of chatbot_api.py: the RAG retriever (chunking,     *)
(* embedding initialisation, retrieval), the conversation store, the tool  *)
(* dispatcher, the chat orchestrator loop and the /api/chat route.         *)
(*                                                                         *)
(* Three specifications share the variables:                               *)
(*   StartupSpec  process start-ups against one store                      *)
(*                (AdityaChatbot.__init__, embed_documents, chunk_text);   *)
(*   Spec         one /api/chat request served by a constructed chatbot;   *)
(*   LoopSpec     Spec plus a model that keeps asking for tools, with the  *)
(*                fairness of a sequential handler that always proceeds.   *)
(***************************************************************************)
EXTENDS Integers, Sequences, FiniteSets, TLC

VARIABLES
    \* the hosted store (survives process restarts)
    documents, conversations, leads, unknown_questions,
    \* the process (AdityaChatbot instance)
    proc, supabase_enabled, resume, summary, chunks, nextChunk, isInit,
    startups, priorEmbed, embedRan, insertedNow,
    \* one /api/chat request
    pc, data, message, history, user_id, relevant_chunks, messages,
    response, tool_results, final_response, http, exc,
    \* observation of the request: completion rounds, operations performed,
    \* message sequences sent, save attempts, failures injected
    rounds, trace, sent, requested, saveRows, retrievalFailed, failedInserts

storeVars   == <<documents, conversations, leads, unknown_questions>>
procVars    == <<proc, supabase_enabled, resume, summary, chunks, nextChunk,
                 isInit, startups, priorEmbed, embedRan, insertedNow>>
requestVars == <<pc, data, message, history, user_id, relevant_chunks,
                 messages, response, tool_results, final_response, http, exc>>
obsVars     == <<rounds, trace, sent, requested, saveRows, retrievalFailed,
                 failedInserts>>
vars        == <<storeVars, procVars, requestVars, obsVars>>

(***************************************************************************)
(* Bounds of the model                                                     *)
(***************************************************************************)
MaxStartups == 3   \* process start-ups against the same store
MaxRounds   == 2   \* tool rounds whose transcript is tracked
MaxBatch    == 2   \* tool calls in one completion response

(***************************************************************************)
(* Program constants                                                       *)
(***************************************************************************)
MinChunkLen == 50  \* len(section) > 50
TopK        == 3   \* top_k=3

(***************************************************************************)
(* Text: a Python str is a sequence of one-character strings.              *)
(***************************************************************************)
NL == "\n"
Rep(c, n) == [i \in 1..n |-> c]

SetMin(S) == CHOOSE m \in S : \A k \in S : m <= k
SetMax(S) == CHOOSE m \in S : \A k \in S : m >= k

IsSpace(c) == c \in {" ", "\n", "\t"}

\* str.strip(): drop leading and trailing whitespace
Strip(s) ==
    LET idx == {i \in 1..Len(s) : ~IsSpace(s[i])}
    IN  IF idx = {} THEN <<>> ELSE SubSeq(s, SetMin(idx), SetMax(idx))

\* text.split('\n\n'): separators are matched left to right without overlap,
\* so in a run of newlines they start at the run's 1st, 3rd, 5th ... position
RunStart(text, i) == SetMax({j \in 1..i : j = 1 \/ text[j - 1] # NL})

SepStarts(text) ==
    {i \in 1..(Len(text) - 1) :
        /\ text[i] = NL
        /\ text[i + 1] = NL
        /\ (i - RunStart(text, i)) % 2 = 0}

Kth(S, k) == CHOOSE x \in S : Cardinality({y \in S : y < x}) = k - 1

Split(text) ==
    LET seps == SepStarts(text)
        m == Cardinality(seps)
    IN  [k \in 1..(m + 1) |->
            SubSeq(text,
                   IF k = 1 THEN 1 ELSE Kth(seps, k - 1) + 2,
                   IF k = m + 1 THEN Len(text) ELSE Kth(seps, k) - 1)]

\* [s.strip() for s in text.split('\n\n') if s.strip()]
Sections(text) ==
    LET pieces == Split(text)
        stripped == [i \in 1..Len(pieces) |-> Strip(pieces[i])]
    IN  SelectSeq(stripped, LAMBDA s : s # <<>>)

\* RAGRetriever.chunk_text: chunk_id is the enumerate() index of the section
chunk_text(text, source) ==
    LET sections == Sections(text)
        tagged == [i \in 1..Len(sections) |->
                     [content  |-> sections[i],
                      metadata |-> [source |-> source, chunk_id |-> i - 1]]]
    IN  SelectSeq(tagged, LAMBDA c : Len(c.content) > MinChunkLen)

(***************************************************************************)
(* The two source documents as the loaders can return them.                *)
(***************************************************************************)
\* "Resume information unavailable": _load_resume's fallback
ResumeFallback ==
    << "R","e","s","u","m","e"," ","i","n","f","o","r","m","a","t","i","o",
       "n"," ","u","n","a","v","a","i","l","a","b","l","e" >>
SummaryFallback == <<>>

Short    == Rep("s", 5)
AtLimit  == Rep("e", MinChunkLen)
LongA    == Rep("a", MinChunkLen + 1)
LongB    == Rep("b", MinChunkLen + 2)
Sep      == <<NL, NL>>

Resumes ==
    { ResumeFallback,
      LongA \o Sep \o LongB,
      Short \o Sep \o LongA \o <<NL, NL, NL>> \o AtLimit \o Sep \o <<" ">> \o LongB \o <<" ">> }
Summaries ==
    { SummaryFallback,
      LongB,
      <<" ", NL>> \o Sep \o Short \o Sep \o LongA }

Sources == {"resume", "summary"}

(***************************************************************************)
(* Values a request starts from.                                           *)
(***************************************************************************)
NoResponse ==
    [finish_reason |-> "none",
     message |-> [role |-> "assistant", content |-> "", tool_calls |-> <<>>]]
NoHttp == [status |-> 0, body |-> [pending |-> TRUE]]

RequestInit ==
    /\ pc = "idle"
    /\ data = {}
    /\ message = ""
    /\ history = <<>>
    /\ user_id = ""
    /\ relevant_chunks = <<>>
    /\ messages = <<>>
    /\ response = NoResponse
    /\ tool_results = <<>>
    /\ final_response = ""
    /\ http = NoHttp
    /\ exc = "none"
    /\ rounds = 0
    /\ trace = <<>>
    /\ sent = <<>>
    /\ requested = <<>>
    /\ saveRows = <<>>
    /\ retrievalFailed = FALSE
    /\ failedInserts = 0

StoreInit ==
    /\ documents = <<>>
    /\ conversations = <<>>
    /\ leads = <<>>
    /\ unknown_questions = <<>>

(***************************************************************************)
(* Process start-up: AdityaChatbot.__init__                                *)
(***************************************************************************)
\* RAGRetriever.generate_embedding: the provider's vector for a text
generate_embedding(text) == <<"text-embedding-3-small", Len(text)>>

\* the record embed_documents inserts for one chunk
EmbeddingRecord(chunk) ==
    [content   |-> chunk.content,
     metadata  |-> chunk.metadata,
     embedding |-> generate_embedding(chunk.content)]

\* RAGRetriever.is_initialized: a failed query is answered False
is_initialized(queryOk) == IF queryOk THEN Len(documents) > 0 ELSE FALSE

\* lines 138-172: connect (configuration and test query), load both documents
Boot ==
    /\ proc = "down"
    /\ startups < MaxStartups
    /\ \E connected \in BOOLEAN, r \in Resumes, s \in Summaries :
         /\ supabase_enabled' = connected
         /\ resume' = r
         /\ summary' = s
         /\ proc' = IF connected THEN "check" ELSE "ready"
    /\ startups' = startups + 1
    /\ priorEmbed' = embedRan
    /\ insertedNow' = 0
    /\ isInit' = "unchecked"
    /\ chunks' = <<>>
    /\ nextChunk' = 1
    /\ UNCHANGED <<embedRan, storeVars, requestVars, obsVars>>

\* lines 175-180 and 55-56: is_initialized decides; embed_documents chunks
CheckInitialized ==
    /\ proc = "check"
    /\ \E queryOk \in BOOLEAN :
         IF is_initialized(queryOk)
         THEN /\ isInit' = "true"
              /\ proc' = "ready"
              /\ UNCHANGED <<chunks, embedRan>>
         ELSE /\ isInit' = "false"
              /\ chunks' = chunk_text(resume, "resume") \o chunk_text(summary, "summary")
              /\ embedRan' = TRUE
              /\ proc' = "embed"
    /\ UNCHANGED <<supabase_enabled, resume, summary, nextChunk, startups,
                   priorEmbed, insertedNow, storeVars, requestVars, obsVars>>

\* lines 60-66, one iteration: embedding and insert both succeed
EmbedChunk ==
    /\ proc = "embed"
    /\ nextChunk <= Len(chunks)
    /\ documents' = Append(documents, EmbeddingRecord(chunks[nextChunk]))
    /\ nextChunk' = nextChunk + 1
    /\ insertedNow' = insertedNow + 1
    /\ UNCHANGED <<proc, supabase_enabled, resume, summary, chunks, isInit,
                   startups, priorEmbed, embedRan,
                   conversations, leads, unknown_questions, requestVars, obsVars>>

\* lines 60-66, one iteration: generate_embedding or the insert raises; nothing
\* catches it, construction fails and the process ends
EmbedFails ==
    /\ proc = "embed"
    /\ nextChunk <= Len(chunks)
    /\ proc' = "crashed"
    /\ UNCHANGED <<supabase_enabled, resume, summary, chunks, nextChunk, isInit,
                   startups, priorEmbed, embedRan, insertedNow,
                   storeVars, requestVars, obsVars>>

\* line 68: every chunk embedded
EmbedDone ==
    /\ proc = "embed"
    /\ nextChunk > Len(chunks)
    /\ proc' = "ready"
    /\ UNCHANGED <<supabase_enabled, resume, summary, chunks, nextChunk, isInit,
                   startups, priorEmbed, embedRan, insertedNow,
                   storeVars, requestVars, obsVars>>

\* the process ends (crash or redeploy); the store keeps its tables
Shutdown ==
    /\ proc \in {"ready", "crashed"}
    /\ proc' = "down"
    /\ UNCHANGED <<supabase_enabled, resume, summary, chunks, nextChunk, isInit,
                   startups, priorEmbed, embedRan, insertedNow,
                   storeVars, requestVars, obsVars>>

StartupInit ==
    /\ StoreInit
    /\ RequestInit
    /\ proc = "down"
    /\ supabase_enabled = FALSE
    /\ resume = <<>>
    /\ summary = <<>>
    /\ chunks = <<>>
    /\ nextChunk = 1
    /\ isInit = "unchecked"
    /\ startups = 0
    /\ priorEmbed = FALSE
    /\ embedRan = FALSE
    /\ insertedNow = 0

StartupNext ==
    \/ Boot
    \/ CheckInitialized
    \/ EmbedChunk
    \/ EmbedFails
    \/ EmbedDone
    \/ Shutdown

StartupSpec == StartupInit /\ [][StartupNext]_vars

\* C3: the chunk_id values of the chunks returned for one source, in output
\* order, are 0, 1, ..., k-1 (a dense zero-based index over the retained chunks)
C3_ChunkIdsDense ==
    \A src \in Sources :
        LET sub == SelectSeq(chunks, LAMBDA c : c.metadata.source = src)
        IN  \A i \in 1..Len(sub) : sub[i].metadata.chunk_id = i - 1

\* C4: once an earlier start-up has run embed_documents, is_initialized
\* answers true and the start-up inserts no record into documents
C4_InitIdempotent ==
    priorEmbed => (isInit # "false" /\ insertedNow = 0)

(***************************************************************************)
(* JSON objects (Python dicts) are sets of <<key, value>> pairs.           *)
(***************************************************************************)
Keys(d) == {p[1] : p \in d}
Lookup(d, k) == (CHOOSE p \in d : p[1] = k)[2]
\* dict.get(k, default)
Get(d, k, default) == IF k \in Keys(d) THEN Lookup(d, k) ELSE default

(***************************************************************************)
(* Tool calls the model can request: name, argument text, correlation id.  *)
(***************************************************************************)
ArgsQuestion  == "{\"question\": \"What is your shoe size?\"}"
ArgsEmail     == "{\"email\": \"a@b.com\"}"
ArgsEmpty     == "{}"
ArgsTruncated == "{\"question\": \"What is"

\* json.loads on the argument texts above: the parsed dict, or JSONDecodeError
json_loads(text) ==
    CASE text = ArgsQuestion -> [ok |-> TRUE, value |-> {<<"question", "What is your shoe size?">>}]
      [] text = ArgsEmail    -> [ok |-> TRUE, value |-> {<<"email", "a@b.com">>}]
      [] text = ArgsEmpty    -> [ok |-> TRUE, value |-> {}]
      [] OTHER               -> [ok |-> FALSE, value |-> {}]

ToolCalls ==
    { [id |-> "call_q", name |-> "record_unknown_question", arguments |-> ArgsQuestion],
      [id |-> "call_m", name |-> "record_user_details",     arguments |-> ArgsEmail],
      [id |-> "call_w", name |-> "get_weather",             arguments |-> ArgsEmpty],
      [id |-> "call_t", name |-> "record_unknown_question", arguments |-> ArgsTruncated],
      [id |-> "call_e", name |-> "record_unknown_question", arguments |-> ArgsEmpty] }

\* the tool_calls list of one completion response: distinct calls, in any order
Batches ==
    {b \in UNION {[1..n -> ToolCalls] : n \in 1..MaxBatch} :
        \A i, j \in DOMAIN b : i # j => b[i].id # b[j].id}

(***************************************************************************)
(* Conversation store                                                      *)
(***************************************************************************)
StoreError == "store unavailable"
LocalNote  == "Logged locally (Supabase disabled)"

\* json.dumps of the result dicts the handlers produce
json_dumps(result) ==
    CASE result = [recorded |-> "ok", email |-> "a@b.com"]
           -> "{\"recorded\": \"ok\", \"email\": \"a@b.com\"}"
      [] result = [recorded |-> "ok"]
           -> "{\"recorded\": \"ok\"}"
      [] result = [recorded |-> "ok", note |-> LocalNote]
           -> "{\"recorded\": \"ok\", \"note\": \"Logged locally (Supabase disabled)\"}"
      [] result = [error |-> StoreError]
           -> "{\"error\": \"store unavailable\"}"
      [] result = [error |-> "Unknown tool"]
           -> "{\"error\": \"Unknown tool\"}"
      [] OTHER -> "null"

\* the row record_user_details inserts into leads
LeadRow(uid, args) ==
    [user_id |-> uid,
     email   |-> Lookup(args, "email"),
     name    |-> Get(args, "name", "Not provided"),
     notes   |-> Get(args, "notes", "")]

\* the row record_unknown_question inserts into unknown_questions
QuestionRow(args) == [question |-> Lookup(args, "question")]

\* save_conversation called with message and response exchanged
ConversationRow_Swapped(uid, msg, resp) ==
    [user_id |-> uid, message |-> resp, response |-> msg, metadata |-> {}]

\* the row save_conversation inserts into conversations
ConversationRow(uid, msg, resp) ==
    [user_id |-> uid, message |-> msg, response |-> resp, metadata |-> {}]

\* record_user_details(user_id, **arguments) binds: email required, name and
\* notes optional, nothing else accepted
BindsUserDetails(args) ==
    /\ "email" \in Keys(args)
    /\ Keys(args) \subseteq {"email", "name", "notes"}

\* record_unknown_question(**arguments) binds: exactly question
BindsUnknownQuestion(args) == Keys(args) = {"question"}

\* an exception leaves the handler
Raise(st, e) == [st EXCEPT !.exc = e]

\* ConversationStore.record_user_details: one insert; a failure is returned
record_user_details(st, uid, args, insertFails) ==
    IF insertFails
    THEN [st EXCEPT !.result = [error |-> StoreError],
                    !.trace = Append(@, "insert:leads"),
                    !.failed = @ + 1]
    ELSE [st EXCEPT !.result = [recorded |-> "ok", email |-> Lookup(args, "email")],
                    !.trace = Append(@, "insert:leads"),
                    !.leads = Append(@, LeadRow(uid, args))]

\* record_unknown_question without its except clause: a failed insert raises
record_unknown_question_Raises(st, args, insertFails) ==
    IF insertFails
    THEN Raise([st EXCEPT !.trace = Append(@, "insert:unknown_questions"),
                          !.failed = @ + 1],
               "StoreError")
    ELSE [st EXCEPT !.result = [recorded |-> "ok"],
                    !.trace = Append(@, "insert:unknown_questions"),
                    !.unknown_questions = Append(@, QuestionRow(args))]

\* ConversationStore.record_unknown_question: one insert; a failure is returned
record_unknown_question(st, args, insertFails) ==
    IF insertFails
    THEN [st EXCEPT !.result = [error |-> StoreError],
                    !.trace = Append(@, "insert:unknown_questions"),
                    !.failed = @ + 1]
    ELSE [st EXCEPT !.result = [recorded |-> "ok"],
                    !.trace = Append(@, "insert:unknown_questions"),
                    !.unknown_questions = Append(@, QuestionRow(args))]

(***************************************************************************)
(* Tool dispatcher: AdityaChatbot._handle_tool_calls                       *)
(***************************************************************************)
\* lines 284-297: route one call to its handler
Route(st, enabled, uid, tc, args, insertFails) ==
    IF tc.name = "record_user_details"
    THEN IF enabled
         THEN IF BindsUserDetails(args)
              THEN record_user_details(st, uid, args, insertFails)
              ELSE Raise(st, "TypeError")
         ELSE [st EXCEPT !.result = [recorded |-> "ok", note |-> LocalNote]]
    ELSE IF tc.name = "record_unknown_question"
    THEN IF enabled
         THEN IF BindsUnknownQuestion(args)
              THEN record_unknown_question(st, args, insertFails)
              ELSE Raise(st, "TypeError")
         ELSE [st EXCEPT !.result = [recorded |-> "ok", note |-> LocalNote]]
    ELSE [st EXCEPT !.result = [error |-> "Unknown tool"]]

\* lines 299-303: the envelope appended for a call
Envelope(tc, result) ==
    [role |-> "tool", content |-> json_dumps(result), tool_call_id |-> tc.id]

\* lines 279-303: one iteration of the loop over tool_calls
HandleOne(st, enabled, uid, tc, insertFails) ==
    LET parsed == json_loads(tc.arguments)
    IN  IF ~parsed.ok
        THEN Raise(st, "JSONDecodeError")
        ELSE LET routed == Route(st, enabled, uid, tc, parsed.value, insertFails)
             IN  IF routed.exc # "none"
                 THEN routed
                 ELSE [routed EXCEPT !.results = Append(@, Envelope(tc, routed.result))]

\* the loop over tool_calls; an exception ends it and leaves the inserts made
RECURSIVE HandleFrom(_, _, _, _, _, _)
HandleFrom(st, enabled, uid, calls, fails, i) ==
    IF i > Len(calls) \/ st.exc # "none"
    THEN st
    ELSE HandleFrom(HandleOne(st, enabled, uid, calls[i], fails[i]),
                    enabled, uid, calls, fails, i + 1)

_handle_tool_calls(enabled, uid, calls, fails, ls, uqs, tr) ==
    HandleFrom([results |-> <<>>, result |-> [none |-> TRUE], exc |-> "none",
                leads |-> ls, unknown_questions |-> uqs, trace |-> tr,
                failed |-> 0],
               enabled, uid, calls, fails, 1)

(***************************************************************************)
(* Retrieval: RAGRetriever.retrieve_context                                *)
(***************************************************************************)
\* what match_documents can return: at most top_k stored contents, ranked by
\* the provider
Matches(top_k) ==
    LET n == Len(documents)
        m == IF n < top_k THEN n ELSE top_k
        picks == {s \in UNION {[1..k -> 1..n] : k \in 0..m} :
                     \A i, j \in DOMAIN s : i # j => s[i] # s[j]}
    IN  {[i \in DOMAIN s |-> documents[s[i]].content] : s \in picks}

\* the remote calls' outcomes: embedding ok?, rpc ok?, rows returned
RetrievalEnvs ==
    {[embedOk |-> e, rpcOk |-> r, rows |-> rows] :
        e \in BOOLEAN, r \in BOOLEAN, rows \in Matches(TopK)}

\* lines 72-87: any failure is caught and answered by the empty list
retrieve_context(env) ==
    IF ~env.embedOk
    THEN [chunks |-> <<>>, ops |-> <<"embedding">>, failed |-> TRUE, exc |-> "none"]
    ELSE IF ~env.rpcOk
    THEN [chunks |-> <<>>, ops |-> <<"embedding", "rpc:match_documents">>,
          failed |-> TRUE, exc |-> "none"]
    ELSE [chunks |-> env.rows, ops |-> <<"embedding", "rpc:match_documents">>,
          failed |-> FALSE, exc |-> "none"]

\* ConversationStore.save_conversation: one insert, a failure is swallowed
save_conversation(rows, row, insertFails) ==
    IF insertFails
    THEN [conversations |-> rows, failed |-> 1, exc |-> "none"]
    ELSE [conversations |-> Append(rows, row), failed |-> 0, exc |-> "none"]

(***************************************************************************)
(* Chat orchestrator: AdityaChatbot.chat, and the /api/chat route          *)
(***************************************************************************)
PersonaName == "Aditya Mazumdar"

\* _build_system_prompt: persona, retrieved context (if any), summary and
\* resume (if non-empty), closing instruction
_build_system_prompt(rag_context) ==
    [persona |-> PersonaName, retrieved |-> rag_context,
     summary |-> summary, resume |-> resume, closing |-> PersonaName]

\* lines 315-317
InitialMessages(rag_context, hist, msg) ==
    << [role |-> "system", content |-> _build_system_prompt(rag_context)] >>
        \o hist \o << [role |-> "user", content |-> msg] >>

\* the tool results appended before the assistant's tool-call message
AppendRound_ResultsFirst(msgs, message_obj, results) ==
    msgs \o results \o <<message_obj>>

\* lines 331-332
AppendRound(msgs, message_obj, results) == msgs \o <<message_obj>> \o results

\* a check for None only: the default '' of data.get passes it
Falsy_IsNone(m) == FALSE

\* line 359: not message
Falsy(m) == m = ""

\* the except clause of the route, lines 367-372
ServerError(e) == [status |-> 500, body |-> [error |-> e, success |-> FALSE]]

PriorTurns ==
    << [role |-> "user", content |-> "Hello"],
       [role |-> "assistant", content |-> "Hi, I am Aditya"] >>

\* request bodies: every field present or absent
Bodies ==
    { m \cup h \cup u :
        m \in {{}, {<<"message", "">>}, {<<"message", "Who are you?">>}},
        h \in {{}, {<<"history", PriorTurns>>}},
        u \in {{}, {<<"user_id", "visitor-7">>}} }

Answers == {"I am a software engineer."}

\* lines 352-362: read the body, reject a missing message, else enter chat
ChatRoute ==
    /\ pc = "idle"
    /\ proc = "ready"
    /\ \E body \in Bodies :
         /\ data' = body
         /\ message' = Get(body, "message", "")
         /\ history' = Get(body, "history", <<>>)
         /\ user_id' = Get(body, "user_id", "anonymous")
    /\ IF Falsy(message')
       THEN /\ http' = [status |-> 400, body |-> [error |-> "Message is required"]]
            /\ pc' = "responded"
       ELSE /\ pc' = "retrieve"
            /\ UNCHANGED http
    /\ UNCHANGED <<relevant_chunks, messages, response, tool_results,
                   final_response, exc, storeVars, procVars, obsVars>>

\* lines 309-317: retrieve context (store enabled), assemble the messages
Retrieve ==
    /\ pc = "retrieve"
    /\ \E env \in RetrievalEnvs :
         LET out == IF supabase_enabled
                    THEN retrieve_context(env)
                    ELSE [chunks |-> <<>>, ops |-> <<>>, failed |-> FALSE, exc |-> "none"]
         IN  /\ trace' = trace \o out.ops
             /\ retrievalFailed' = out.failed
             /\ exc' = out.exc
             /\ IF out.exc # "none"
                THEN /\ http' = ServerError(out.exc)
                     /\ pc' = "responded"
                     /\ UNCHANGED <<relevant_chunks, messages>>
                ELSE /\ relevant_chunks' = out.chunks
                     /\ messages' = InitialMessages(out.chunks, history, message)
                     /\ pc' = "awaiting"
                     /\ UNCHANGED http
    /\ UNCHANGED <<data, message, history, user_id, response, tool_results,
                   final_response, storeVars, procVars,
                   rounds, sent, requested, saveRows, failedInserts>>

\* line 322: the completion call raises; the route answers 500
CompleteFails ==
    /\ pc = "awaiting"
    /\ rounds <= MaxRounds
    /\ rounds' = rounds + 1
    /\ trace' = Append(trace, "completion")
    /\ sent' = Append(sent, messages)
    /\ exc' = "APIError"
    /\ http' = ServerError("APIError")
    /\ pc' = "responded"
    /\ UNCHANGED <<data, message, history, user_id, relevant_chunks, messages,
                   response, tool_results, final_response, storeVars, procVars,
                   requested, saveRows, retrievalFailed, failedInserts>>

\* lines 322-328: the model answers with finish_reason "tool_calls"
CompleteToolCalls ==
    /\ pc = "awaiting"
    /\ rounds < MaxRounds
    /\ \E b \in Batches :
         /\ response' = [finish_reason |-> "tool_calls",
                         message |-> [role |-> "assistant", content |-> "",
                                      tool_calls |-> b]]
         /\ requested' = Append(requested, b)
    /\ rounds' = rounds + 1
    /\ trace' = Append(trace, "completion")
    /\ sent' = Append(sent, messages)
    /\ pc' = "dispatch"
    /\ UNCHANGED <<data, message, history, user_id, relevant_chunks, messages,
                   tool_results, final_response, http, exc, storeVars, procVars,
                   saveRows, retrievalFailed, failedInserts>>

\* lines 322-334: the model answers with a final text
CompleteStop ==
    /\ pc = "awaiting"
    /\ rounds <= MaxRounds
    /\ \E a \in Answers :
         response' = [finish_reason |-> "stop",
                      message |-> [role |-> "assistant", content |-> a,
                                   tool_calls |-> <<>>]]
    /\ rounds' = rounds + 1
    /\ trace' = Append(trace, "completion")
    /\ sent' = Append(sent, messages)
    /\ pc' = "done"
    /\ UNCHANGED <<data, message, history, user_id, relevant_chunks, messages,
                   tool_results, final_response, http, exc, storeVars, procVars,
                   requested, saveRows, retrievalFailed, failedInserts>>

\* lines 329-332: run the requested tool calls, append the round
Dispatch ==
    /\ pc = "dispatch"
    /\ rounds <= MaxRounds
    /\ LET calls == response.message.tool_calls
       IN  \E fails \in [1..Len(calls) -> BOOLEAN] :
             LET out == _handle_tool_calls(supabase_enabled, user_id, calls, fails,
                                           leads, unknown_questions, trace)
             IN  /\ leads' = out.leads
                 /\ unknown_questions' = out.unknown_questions
                 /\ trace' = out.trace
                 /\ failedInserts' = failedInserts + out.failed
                 /\ exc' = out.exc
                 /\ IF out.exc # "none"
                    THEN /\ http' = ServerError(out.exc)
                         /\ pc' = "responded"
                         /\ UNCHANGED <<messages, tool_results>>
                    ELSE /\ tool_results' = out.results
                         /\ messages' = AppendRound(messages, response.message, out.results)
                         /\ pc' = "awaiting"
                         /\ UNCHANGED http
    /\ UNCHANGED <<data, message, history, user_id, relevant_chunks, response,
                   final_response, documents, conversations, procVars,
                   rounds, sent, requested, saveRows, retrievalFailed>>

\* lines 336-342 and 363-366: take the answer, save the turn, answer 200
Finish ==
    /\ pc = "done"
    /\ final_response' = response.message.content
    /\ IF supabase_enabled
       THEN \E insertFails \in BOOLEAN :
              LET row == ConversationRow(user_id, message, final_response')
                  out == save_conversation(conversations, row, insertFails)
              IN  /\ conversations' = out.conversations
                  /\ saveRows' = Append(saveRows, row)
                  /\ trace' = Append(trace, "insert:conversations")
                  /\ failedInserts' = failedInserts + out.failed
                  /\ exc' = out.exc
       ELSE UNCHANGED <<conversations, saveRows, trace, failedInserts, exc>>
    /\ http' = IF exc' # "none"
               THEN ServerError(exc')
               ELSE [status |-> 200,
                     body |-> [response |-> final_response', success |-> TRUE]]
    /\ pc' = "responded"
    /\ UNCHANGED <<data, message, history, user_id, relevant_chunks, messages,
                   response, tool_results, documents, leads, unknown_questions,
                   procVars, rounds, sent, requested, retrievalFailed>>

\* a constructed chatbot: the store is enabled or not, the documents loaded,
\* and (store enabled) their chunks embedded by the start-up
Init ==
    /\ RequestInit
    /\ proc = "ready"
    /\ supabase_enabled \in BOOLEAN
    /\ resume = ResumeFallback
    /\ summary \in {SummaryFallback, LongB}
    /\ chunks = chunk_text(resume, "resume") \o chunk_text(summary, "summary")
    /\ nextChunk = Len(chunks) + 1
    /\ documents = IF supabase_enabled
                   THEN [i \in 1..Len(chunks) |-> EmbeddingRecord(chunks[i])]
                   ELSE <<>>
    /\ conversations = <<>>
    /\ leads = <<>>
    /\ unknown_questions = <<>>
    /\ isInit = IF supabase_enabled THEN "false" ELSE "unchecked"
    /\ startups = 1
    /\ priorEmbed = FALSE
    /\ embedRan = supabase_enabled
    /\ insertedNow = Len(documents)

Next ==
    \/ ChatRoute
    \/ Retrieve
    \/ CompleteFails
    \/ CompleteToolCalls
    \/ CompleteStop
    \/ Dispatch
    \/ Finish

Spec == Init /\ [][Next]_vars

(***************************************************************************)
(* The loop beyond the tracked rounds.  chat has no iteration cap: the     *)
(* model may answer "tool_calls" again after MaxRounds rounds.  The        *)
(* transcript, the trace and the round counter keep their values for these *)
(* rounds (rounds = MaxRounds + 1 reads "more than MaxRounds"), and the    *)
(* model asks for a tool that touches no table.                            *)
(***************************************************************************)
IdleCall == [id |-> "call_w", name |-> "get_weather", arguments |-> ArgsEmpty]

\* lines 322-328, a round after the tracked ones
CompleteBeyond ==
    /\ pc = "awaiting"
    /\ rounds >= MaxRounds
    /\ rounds' = MaxRounds + 1
    /\ response' = [finish_reason |-> "tool_calls",
                    message |-> [role |-> "assistant", content |-> "",
                                 tool_calls |-> <<IdleCall>>]]
    /\ pc' = "dispatch"
    /\ UNCHANGED <<data, message, history, user_id, relevant_chunks, messages,
                   tool_results, final_response, http, exc, storeVars, procVars,
                   trace, sent, requested, saveRows, retrievalFailed,
                   failedInserts>>

\* lines 329-332, a round after the tracked ones
DispatchBeyond ==
    /\ pc = "dispatch"
    /\ rounds > MaxRounds
    /\ LET calls == response.message.tool_calls
           out == _handle_tool_calls(supabase_enabled, user_id, calls,
                                     [i \in 1..Len(calls) |-> FALSE],
                                     leads, unknown_questions, trace)
       IN  tool_results' = out.results
    /\ pc' = "awaiting"
    /\ UNCHANGED <<data, message, history, user_id, relevant_chunks, messages,
                   response, final_response, http, exc, storeVars, procVars,
                   obsVars>>

LoopNext ==
    \/ Next
    \/ CompleteBeyond
    \/ DispatchBeyond

\* a request handler runs to its next step whenever it has one
LoopSpec == Init /\ [][LoopNext]_vars /\ WF_vars(LoopNext)

(***************************************************************************)
(* Properties                                                              *)
(***************************************************************************)
Range(f) == {f[i] : i \in DOMAIN f}
Count(seq, x) == Cardinality({i \in DOMAIN seq : seq[i] = x})

StoreOps ==
    {"rpc:match_documents", "insert:leads", "insert:unknown_questions",
     "insert:conversations"}
RecordingTools == {"record_user_details", "record_unknown_question"}

\* the request's body carried a message the route accepts
HasMessage == Get(data, "message", "") # ""

\* the last completion asked for tools and the dispatcher has run on them
Dispatched == response.finish_reason = "tool_calls" /\ pc # "dispatch"

\* C1: the tool-calling loop of a request ends (DONE, or the request is
\* answered) whatever the model answers
C1_LoopTerminates == (pc = "awaiting") ~> (pc \in {"done", "responded"})

\* C2: for a batch of N tool calls the dispatcher returns N envelopes with
\* role "tool", the i-th carrying the i-th call's id, an unknown tool giving
\* the "Unknown tool" error envelope
C2_EnvelopePerCall ==
    Dispatched =>
        LET calls == response.message.tool_calls
        IN  /\ exc \in {"none", "APIError"}
            /\ Len(tool_results) = Len(calls)
            /\ \A i \in 1..Len(calls) :
                 /\ i <= Len(tool_results)
                 /\ tool_results[i].role = "tool"
                 /\ tool_results[i].tool_call_id = calls[i].id
                 /\ (calls[i].name \notin RecordingTools =>
                        tool_results[i].content = json_dumps([error |-> "Unknown tool"]))

\* the tool envelopes of a message sequence that report a failed insert
ErrorEnvelopes(msgs) ==
    Cardinality({i \in DOMAIN msgs :
                    /\ msgs[i].role = "tool"
                    /\ msgs[i].content = json_dumps([error |-> StoreError])})

\* C5: a request with a message whose completion calls succeed is never
\* answered non-200 because retrieval or a store insert failed: a failed
\* retrieval leaves an empty context, every failed tool insert is an error
\* envelope in the messages, and the only exceptions that reach the route
\* come from completion calls or from tool-call argument payloads
C5_StoreFailuresAbsorbed ==
    /\ (retrievalFailed /\ pc # "responded") => relevant_chunks = <<>>
    /\ pc \in {"awaiting", "dispatch", "done"} =>
           ErrorEnvelopes(messages) = failedInserts
    /\ exc \in {"none", "APIError", "JSONDecodeError", "TypeError"}
    /\ (pc = "responded" /\ HasMessage /\ exc = "none") =>
           /\ http.status = 200
           /\ http.body = [response |-> response.message.content, success |-> TRUE]
           /\ response.finish_reason = "stop"

\* C5 witness: retrieval failed, a tool insert failed, the save failed, and the
\* caller got 200
C5_Witness ==
    /\ pc = "responded"
    /\ http.status = 200
    /\ retrievalFailed
    /\ ErrorEnvelopes(messages) >= 1
    /\ saveRows # <<>>
    /\ conversations = <<>>

\* the record_unknown_question calls the model requested in this request
RECURSIVE QuestionCalls(_)
QuestionCalls(batches) ==
    IF batches = <<>> THEN 0
    ELSE Cardinality({i \in DOMAIN Head(batches) :
                         Head(batches)[i].name = "record_unknown_question"})
         + QuestionCalls(Tail(batches))

\* C6: store enabled, inserts succeeding, completions succeeding: the request
\* inserted one unknown_questions record per record_unknown_question call the
\* model requested, and ended with the final answer
C6_OneRecordPerQuestionCall ==
    (pc = "responded" /\ HasMessage /\ supabase_enabled /\ failedInserts = 0
        /\ exc # "APIError") =>
        /\ Len(unknown_questions) = QuestionCalls(requested)
        /\ http.status = 200
        /\ http.body = [response |-> response.message.content, success |-> TRUE]

\* C7: a body without a message, or with an empty one, is answered 400
\* "Message is required" and nothing of the orchestrator runs: no retrieval,
\* no completion call, no store write
C7_MissingMessageRejected ==
    (pc # "idle" /\ ~HasMessage) =>
        /\ pc = "responded"
        /\ http = [status |-> 400, body |-> [error |-> "Message is required"]]
        /\ trace = <<>>
        /\ rounds = 0
        /\ messages = <<>>
        /\ conversations = <<>> /\ leads = <<>> /\ unknown_questions = <<>>

C7_Witness ==
    /\ pc = "responded"
    /\ http.status = 400
    /\ "message" \notin Keys(data)
    /\ "history" \in Keys(data)

\* C8: with the store disabled a request performs no store operation, and
\* every record_user_details / record_unknown_question call is answered by
\* the local acknowledgment
C8_DisabledStoreAcknowledges ==
    ~supabase_enabled =>
        /\ Range(trace) \cap StoreOps = {}
        /\ conversations = <<>> /\ leads = <<>> /\ unknown_questions = <<>>
        /\ Dispatched =>
             LET calls == response.message.tool_calls
             IN  \A i \in 1..Len(calls) :
                    calls[i].name \in RecordingTools =>
                        /\ i <= Len(tool_results)
                        /\ tool_results[i].tool_call_id = calls[i].id
                        /\ tool_results[i].content =
                             json_dumps([recorded |-> "ok", note |-> LocalNote])

\* position of the last message before tool round j in a message sequence
\* that starts with the system prompt, hist and the user message
RECURSIVE RoundOffset(_, _, _)
RoundOffset(hist, batches, j) ==
    IF j = 1 THEN Len(hist) + 2
    ELSE RoundOffset(hist, batches, j - 1) + 1 + Len(batches[j - 1])

\* seq is what the k-th completion call must be sent: system prompt, the
\* caller's history, the user message, then for each earlier round the
\* assistant's tool-call message followed by one tool result per requested
\* call, in request order
WellFormedTranscript(seq, k) ==
    LET hist == Get(data, "history", <<>>)
    IN  /\ Len(seq) = RoundOffset(hist, requested, k)
        /\ seq[1] = [role |-> "system",
                     content |-> _build_system_prompt(relevant_chunks)]
        /\ SubSeq(seq, 2, Len(hist) + 1) = hist
        /\ seq[Len(hist) + 2] = [role |-> "user", content |-> Lookup(data, "message")]
        /\ \A j \in 1..(k - 1) :
             LET at == RoundOffset(hist, requested, j)
             IN  /\ seq[at + 1] = [role |-> "assistant", content |-> "",
                                   tool_calls |-> requested[j]]
                 /\ \A i \in 1..Len(requested[j]) :
                      /\ seq[at + 1 + i].role = "tool"
                      /\ seq[at + 1 + i].tool_call_id = requested[j][i].id

IsPrefix(a, b) == Len(a) <= Len(b) /\ SubSeq(b, 1, Len(a)) = a

\* C9: every completion call is sent the well-formed transcript, each one
\* extends the previous one by appending, and the caller's history is as the
\* caller supplied it
C9_TranscriptShape ==
    /\ \A k \in 1..Len(sent) : WellFormedTranscript(sent[k], k)
    /\ \A k \in 1..(Len(sent) - 1) : IsPrefix(sent[k], sent[k + 1])
    /\ pc = "awaiting" =>
         /\ WellFormedTranscript(messages, Len(sent) + 1)
         /\ (sent # <<>> => IsPrefix(sent[Len(sent)], messages))
    /\ pc \notin {"idle"} => history = Get(data, "history", <<>>)

\* C9 witness: a third completion call after two tool rounds, the first of
\* two calls, with a caller history
C9_Witness ==
    /\ Len(sent) = 3
    /\ Len(requested[1]) = 2
    /\ history # <<>>
    /\ Len(sent[3]) > Len(sent[2])

\* C10: store enabled: a request that reaches DONE attempts save_conversation
\* once, as its last operation, after the last completion call, with the
\* request's user_id, the user message and the final answer; no save happens
\* before DONE, nor for a request that never reaches DONE
C10_SaveOnceAtDone ==
    /\ pc # "responded" =>
         /\ saveRows = <<>>
         /\ conversations = <<>>
         /\ "insert:conversations" \notin Range(trace)
    /\ (pc = "responded" /\ response.finish_reason # "stop") =>
         /\ saveRows = <<>>
         /\ conversations = <<>>
    /\ (pc = "responded" /\ response.finish_reason = "stop" /\ supabase_enabled) =>
         /\ Len(saveRows) = 1
         /\ saveRows[1] = [user_id  |-> Get(data, "user_id", "anonymous"),
                           message  |-> Lookup(data, "message"),
                           response |-> response.message.content,
                           metadata |-> {}]
         /\ Count(trace, "insert:conversations") = 1
         /\ trace[Len(trace)] = "insert:conversations"
         /\ trace[Len(trace) - 1] = "completion"
         /\ conversations \in {<<>>, saveRows}

\* C10 witness: a request with a tool round reached DONE and its turn is stored
C10_Witness ==
    /\ pc = "responded"
    /\ supabase_enabled
    /\ response.finish_reason = "stop"
    /\ Len(requested) >= 1
    /\ conversations # <<>>
    /\ "user_id" \in Keys(data)

====
